---- MODULE Spec2Model ----
(***************************************************************************)
(* A model of view-rs: the ImageViewer state (src/src/main.rs) and the     *)
(* path helpers (src/src/path.rs).                                         *)
(*                                                                         *)
(* Paths are OsStrings: sequences of bytes.  Rust Strings are sequences of *)
(* bytes that are valid UTF-8.  Path::display / to_string_lossy is the     *)
(* lossy conversion Lossy below, PathBuf::from(String) keeps the bytes.    *)
(* Indices are 0-based as in the Rust code: files[index] is written        *)
(* files[index + 1] on a TLA+ sequence.                                    *)
(***************************************************************************)
EXTENDS Integers, Sequences, FiniteSets, TLC

VARIABLES
    current_src,   \* Option<String>: the source handed to the renderer
    image_size,    \* [usize; 2]
    files,         \* Vec<PathSortable>
    index,         \* usize
    randomize,     \* bool
    dropped,       \* the dropped_files of the frame that was handled last
    op,            \* the handler that ran last
    ret,           \* what the last open_dir call returned ("none": not called)
    target,        \* the path handed to open_dir or opened as a single file
                   \* most recently, if any
    origin,        \* what files was last replaced from: "empty", "dir", "file"
    nav,           \* the last two next()/prev() calls in a row, with the
                   \* index and current_src each of them started from
    visited,       \* the index the current run of consecutive next() calls
                   \* started from, followed by the index after each call
    probe          \* three paths and, once compared, how cmp orders them

vars == <<current_src, image_size, files, index, randomize,
          dropped, op, ret, target, origin, nav, visited, probe>>

\* The longest list of files dropped in one frame.
MaxDrop == 2

None == [some |-> FALSE, val |-> <<>>]
Some(x) == [some |-> TRUE, val |-> x]

---------------------------------------------------------------------------
(* Bytes and strings *)

\* The UTF-8 bytes of one character; "xFF" is the byte 0xFF, which no UTF-8
\* string contains; "uFFFD" is U+FFFD REPLACEMENT CHARACTER (EF BF BD).
Code(c) ==
    CASE c = "/" -> <<47>>  [] c = "." -> <<46>>  [] c = ":" -> <<58>>
      [] c = "0" -> <<48>>  [] c = "1" -> <<49>>  [] c = "2" -> <<50>>
      [] c = "7" -> <<55>>
      [] c = "G" -> <<71>>  [] c = "N" -> <<78>>  [] c = "P" -> <<80>>
      [] c = "a" -> <<97>>  [] c = "b" -> <<98>>  [] c = "c" -> <<99>>
      [] c = "d" -> <<100>> [] c = "e" -> <<101>> [] c = "f" -> <<102>>
      [] c = "g" -> <<103>> [] c = "h" -> <<104>> [] c = "i" -> <<105>>
      [] c = "j" -> <<106>> [] c = "l" -> <<108>> [] c = "m" -> <<109>>
      [] c = "n" -> <<110>> [] c = "o" -> <<111>> [] c = "p" -> <<112>>
      [] c = "s" -> <<115>> [] c = "t" -> <<116>> [] c = "u" -> <<117>>
      [] c = "v" -> <<118>> [] c = "w" -> <<119>> [] c = "x" -> <<120>>
      [] c = "xFF" -> <<255>>
      [] c = "uFFFD" -> <<239, 191, 189>>

RECURSIVE B(_)
\* The byte string spelled by a tuple of characters.
B(s) == IF s = <<>> THEN <<>> ELSE Code(Head(s)) \o B(Tail(s))

Replacement == <<239, 191, 189>>

RECURSIVE Lossy(_)
\* String::from_utf8_lossy over the modelled alphabet: ASCII bytes and the
\* encoding of U+FFFD are kept, any other byte becomes U+FFFD.
Lossy(b) ==
    IF b = <<>> THEN <<>>
    ELSE IF Head(b) < 128 THEN <<Head(b)>> \o Lossy(Tail(b))
    ELSE IF Len(b) >= 3 /\ SubSeq(b, 1, 3) = Replacement
         THEN Replacement \o Lossy(SubSeq(b, 4, Len(b)))
    ELSE Replacement \o Lossy(Tail(b))

\* OsStr::to_str: Some only for valid UTF-8.
to_str(b) == IF Lossy(b) = b THEN Some(b) ELSE None

\* u8::to_ascii_lowercase, str::to_ascii_lowercase
to_ascii_lowercase(s) ==
    [i \in 1..Len(s) |-> IF s[i] >= 65 /\ s[i] <= 90 THEN s[i] + 32 ELSE s[i]]

FilePrefix == B(<<"f", "i", "l", "e", ":", "/", "/">>)

\* path.rs to_url: "file://" followed by path.display()
to_url(path) == FilePrefix \o Lossy(path)

\* path.rs to_path: strip_prefix("file://").map(PathBuf::from)
to_path(url) ==
    IF Len(url) >= Len(FilePrefix) /\ SubSeq(url, 1, Len(FilePrefix)) = FilePrefix
    THEN Some(SubSeq(url, Len(FilePrefix) + 1, Len(url)))
    ELSE None

\* The position of the last byte c in s, 0 if there is none.
LastPos(s, c) ==
    LET hits == {i \in 1..Len(s) : s[i] = c}
    IN IF hits = {} THEN 0 ELSE CHOOSE i \in hits : \A j \in hits : j <= i

\* Path::file_name: the last component.
file_name(path) == SubSeq(path, LastPos(path, 47) + 1, Len(path))

\* Path::extension: what follows the last dot of the file name; None when
\* there is no dot or the only dot is the first byte.
extension(path) ==
    LET name == file_name(path)
        k    == LastPos(name, 46)
    IN IF k <= 1 THEN None ELSE Some(SubSeq(name, k + 1, Len(name)))

---------------------------------------------------------------------------
(* The file system the program runs on *)

DirD == B(<<"/", "d">>)
DirE == B(<<"/", "e">>)
DirU == B(<<"/", "u">>)
DirN == B(<<"/", "n">>)

Dirs == {DirD, DirE, DirU, DirN}

Entry(name, kind) == [name |-> B(name), kind |-> kind]

\* The entries of each directory, in the order read_dir lists them; DirU
\* exists but cannot be enumerated.
FileSystem ==
    [dir \in Dirs |->
       CASE dir = DirD -> << Entry(<<"b", ".", "j", "p", "g">>, "file"),
                             Entry(<<"a", ".", "p", "n", "g">>, "file"),
                             Entry(<<".", "h", "i", "d", "d", "e", "n", ".", "p", "n", "g">>, "file"),
                             Entry(<<"n", "o", "t", "e", "s", ".", "t", "x", "t">>, "file"),
                             Entry(<<"c", ".", "P", "N", "G">>, "file") >>
         [] dir = DirE -> << Entry(<<"n", "o", "t", "e", "s", ".", "t", "x", "t">>, "file"),
                             Entry(<<"s", "u", "b", ".", "p", "n", "g">>, "dir"),
                             Entry(<<"p", "n", "g">>, "file") >>
         [] dir = DirN -> << Entry(<<"xFF", ".", "p", "n", "g">>, "file"),
                             Entry(<<"i", "m", "g", "1", "0", ".", "p", "n", "g">>, "file"),
                             Entry(<<"i", "m", "g", "2", ".", "p", "n", "g">>, "file") >>
         [] OTHER -> <<>>]

Readable(dir) == dir \in {DirD, DirE, DirN}

\* DirEntry::path: the directory joined with the entry's name.
EntryPath(dir, e) == dir \o <<47>> \o e.name

\* Every path that names something, with its kind.
Tree ==
    {[path |-> d, kind |-> "dir"] : d \in Dirs}
      \cup UNION {{[path |-> EntryPath(d, FileSystem[d][i]), kind |-> FileSystem[d][i].kind] :
                      i \in 1..Len(FileSystem[d])} : d \in Dirs}

is_dir(p) == [path |-> p, kind |-> "dir"] \in Tree
is_file(p) == [path |-> p, kind |-> "file"] \in Tree

---------------------------------------------------------------------------
(* PathSortable: Eq is PathBuf equality, Ord is natural_cmp on the lossy    *)
(* strings.  natural_cmp belongs to the crate natural_sort_rs, whose source *)
(* is not part of the repository: it is modelled from the specification's   *)
(* section 4.1.                                                             *)

IsDigit(c) == c >= 48 /\ c <= 57

RECURSIVE RunLen(_, _)
\* The length of the longest prefix of s made of digits (digit = TRUE) or of
\* non-digits (digit = FALSE).
RunLen(s, digit) ==
    IF s = <<>> \/ IsDigit(Head(s)) # digit THEN 0 ELSE 1 + RunLen(Tail(s), digit)

RECURSIVE Runs(_, _)
\* s as alternating runs; the first run is of the kind `digit` and may be empty.
Runs(s, digit) ==
    IF s = <<>> THEN <<>>
    ELSE LET k == RunLen(s, digit)
         IN <<SubSeq(s, 1, k)>> \o Runs(SubSeq(s, k + 1, Len(s)), ~digit)

RECURSIVE NumValue(_)
\* The integer a digit run denotes.
NumValue(run) ==
    IF run = <<>> THEN 0
    ELSE NumValue(SubSeq(run, 1, Len(run) - 1)) * 10 + (run[Len(run)] - 48)

IntCmp(x, y) == IF x < y THEN "Less" ELSE IF x > y THEN "Greater" ELSE "Equal"

RECURSIVE LexCmp(_, _)
\* Ordinary character ordering of two runs.
LexCmp(a, b) ==
    IF a = <<>> /\ b = <<>> THEN "Equal"
    ELSE IF a = <<>> THEN "Less"
    ELSE IF b = <<>> THEN "Greater"
    ELSE IF Head(a) # Head(b) THEN IntCmp(Head(a), Head(b))
    ELSE LexCmp(Tail(a), Tail(b))

\* Digit runs: by integer value, then the shorter run first.
DigitCmp(a, b) ==
    IF NumValue(a) # NumValue(b) THEN IntCmp(NumValue(a), NumValue(b))
    ELSE IntCmp(Len(a), Len(b))

RECURSIVE RunsCmp(_, _, _)
\* Corresponding runs pairwise; a strict prefix sorts first.
RunsCmp(ra, rb, digit) ==
    IF ra = <<>> /\ rb = <<>> THEN "Equal"
    ELSE IF ra = <<>> THEN "Less"
    ELSE IF rb = <<>> THEN "Greater"
    ELSE LET c == IF digit THEN DigitCmp(Head(ra), Head(rb))
                  ELSE LexCmp(Head(ra), Head(rb))
         IN IF c # "Equal" THEN c ELSE RunsCmp(Tail(ra), Tail(rb), ~digit)

natural_cmp(a, b) == RunsCmp(Runs(a, FALSE), Runs(b, FALSE), FALSE)

\* impl Ord for PathSortable
cmp(a, b) == natural_cmp(Lossy(a), Lossy(b))

RECURSIVE Insert(_, _)
\* x put into the sorted sequence s after every element that is not greater.
Insert(s, x) ==
    IF s = <<>> THEN <<x>>
    ELSE IF cmp(x, Head(s)) = "Less" THEN <<x>> \o s
    ELSE <<Head(s)>> \o Insert(Tail(s), x)

RECURSIVE sort(_)
\* slice::sort: a stable sort by cmp.
sort(s) == IF s = <<>> THEN <<>> ELSE Insert(sort(SubSeq(s, 1, Len(s) - 1)), s[Len(s)])

\* Mutant: each position is drawn from s independently, so that a path can be
\* drawn twice.
shuffle_WithReplacement(s) == [1..Len(s) -> {s[i] : i \in 1..Len(s)}]

\* slice::shuffle: every arrangement of s is a possible outcome.
shuffle(s) == {[i \in 1..Len(s) |-> s[p[i]]] : p \in Permutations(1..Len(s))}

\* iter().position(|p| p.deref() == &cur): the 0-based position of the first
\* element equal to cur.
position(s, cur) ==
    LET hits == {i \in 1..Len(s) : s[i] = cur}
    IN IF hits = {} THEN None ELSE Some((CHOOSE i \in hits : \A j \in hits : i <= j) - 1)

---------------------------------------------------------------------------
(* open_dir's filters *)

exts == << B(<<"j", "p", "g">>), B(<<"j", "p", "e", "g">>), B(<<"p", "n", "g">>),
           B(<<"b", "m", "p">>), B(<<"g", "i", "f">>), B(<<"w", "e", "b", "p">>),
           B(<<"a", "v", "i", "f">>) >>

starts_with_dot(s) == s # <<>> /\ Head(s) = 46

\* Mutant: the hidden-file test is left out.
VisibleFile_KeepsHidden(p) == is_file(p)

\* The first filter: a regular file whose name does not start with '.'.
VisibleFile(p) == is_file(p) /\ ~starts_with_dot(Lossy(file_name(p)))

\* Mutant: the extension is compared without lowercasing it.
HasImageExt_CaseSensitive(p) ==
    LET e == extension(p)
        s == IF e.some THEN to_str(e.val) ELSE None
    IN s.some /\ \E i \in 1..Len(exts) : exts[i] = s.val

\* The retain closure: the extension is UTF-8 and, lowercased, one of exts.
HasImageExt(p) ==
    LET e == extension(p)
        s == IF e.some THEN to_str(e.val) ELSE None
    IN s.some /\ \E i \in 1..Len(exts) : exts[i] = to_ascii_lowercase(s.val)

\* The entries open_dir keeps, in the order read_dir listed them.
Retained(listing) == SelectSeq(listing, LAMBDA p : VisibleFile(p) /\ HasImageExt(p))

\* read_dir(dir).filter_map(Result::ok).map(|e| e.path())
Listing(dir) == [i \in 1..Len(FileSystem[dir]) |-> EntryPath(dir, FileSystem[dir][i])]

\* `entries` after the retain, for each directory.
Entries == [dir \in Dirs |-> Retained(Listing(dir))]

---------------------------------------------------------------------------
(* ImageViewer *)

prog == <<current_src, image_size, files, index>>

\* No comparison is under way.
NoProbe == [a |-> <<>>, b |-> <<>>, c |-> <<>>, done |-> FALSE, r |-> <<>>]

\* impl Default for ImageViewer
Init ==
    /\ current_src = None
    /\ image_size = <<0, 0>>
    /\ files = <<>>
    /\ index = 0
    /\ randomize = TRUE
    /\ dropped = <<>>
    /\ op = "init"
    /\ ret = "none"
    /\ target = None
    /\ origin = "empty"
    /\ nav = <<>>
    /\ visited = <<0>>
    /\ probe = NoProbe

\* Mutant: the set is shuffled in Sequential mode too.
Arrange_AlwaysShuffles(s, random) == shuffle(s)

\* The arrangements of s the current mode allows: a shuffle or the sort.
Arrange(s, random) == IF random THEN shuffle(s) ELSE {sort(s)}

\* Mutant: the viewer is emptied before the error is returned.
Fail_ClearsFiles(err) ==
    /\ ret' = err
    /\ files' = <<>>
    /\ index' = 0
    /\ current_src' = None
    /\ UNCHANGED <<image_size, origin>>

\* Mutant: the error is returned after index was reset.
Fail_ResetsIndex(err) ==
    /\ ret' = err
    /\ index' = 0
    /\ UNCHANGED <<files, current_src, image_size, origin>>

\* open_dir's early returns: Err(..) with the viewer untouched.
Fail(err) == ret' = err /\ UNCHANGED <<prog, origin>>

\* Mutant: a successful load leaves index where it was.
open_dir_KeepsIndex(dir) ==
    IF ~Readable(dir)
    THEN Fail("DirectoryUnreadable")
    ELSE LET entries == Entries[dir]
         IN IF entries = <<>>
            THEN Fail("EmptyDirectory")
            ELSE \E arranged \in Arrange(entries, randomize) :
                   /\ files' = arranged
                   /\ current_src' = Some(to_url(arranged[1]))
                   /\ image_size' = <<0, 0>>
                   /\ ret' = "Ok"
                   /\ origin' = "dir"
                   /\ UNCHANGED index

\* ImageViewer::open_dir; ret' is the Result it returns.
open_dir(dir) ==
    IF ~Readable(dir)
    THEN Fail("DirectoryUnreadable")
    ELSE LET entries == Entries[dir]
         IN IF entries = <<>>
            THEN Fail("EmptyDirectory")
            ELSE \E arranged \in Arrange(entries, randomize) :
                   /\ files' = arranged
                   /\ index' = 0
                   /\ current_src' = Some(to_url(arranged[1]))
                   /\ image_size' = <<0, 0>>
                   /\ ret' = "Ok"
                   /\ origin' = "dir"

\* Mutant: index is not reset.
open_file_KeepsIndex(p) ==
    /\ files' = <<p>>
    /\ current_src' = Some(FilePrefix \o Lossy(p))
    /\ origin' = "file"
    /\ UNCHANGED <<index, image_size>>

\* Mutant: a file whose extension is not an image's is not opened.
open_file_Filtered(p) ==
    IF HasImageExt(p)
    THEN /\ files' = <<p>>
         /\ index' = 0
         /\ current_src' = Some(FilePrefix \o Lossy(p))
         /\ origin' = "file"
         /\ UNCHANGED image_size
    ELSE UNCHANGED <<prog, origin>>

\* The single-file branch of the drop handler.
open_file(p) ==
    /\ files' = <<p>>
    /\ index' = 0
    /\ current_src' = Some(FilePrefix \o Lossy(p))
    /\ origin' = "file"
    /\ UNCHANGED image_size

\* Mutant: next() stops at the last index.
NextIndex_Saturating(i, n) == IF i + 1 < n THEN i + 1 ELSE i

\* next()'s index: (index + 1) % len
NextIndex(i, n) == (i + 1) % n

\* Mutant: prev() stops at index 0.
PrevIndex_Saturating(i, n) == IF i = 0 THEN 0 ELSE i - 1

\* prev()'s index: len - 1 from 0, index - 1 otherwise
PrevIndex(i, n) == IF i = 0 THEN n - 1 ELSE i - 1

\* Mutant: next() moves the index and leaves current_src as it was.
next_KeepsSrc ==
    IF files = <<>>
    THEN UNCHANGED prog
    ELSE /\ index' = NextIndex(index, Len(files))
         /\ image_size' = <<0, 0>>
         /\ UNCHANGED <<files, current_src>>

\* Mutant: next() in Random mode draws a new arrangement.
next_Reshuffles ==
    IF files = <<>>
    THEN UNCHANGED prog
    ELSE \E arranged \in Arrange(files, randomize) :
           /\ files' = arranged
           /\ index' = NextIndex(index, Len(files))
           /\ current_src' = Some(to_url(arranged[index' + 1]))
           /\ image_size' = <<0, 0>>

\* ImageViewer::next
next ==
    IF files = <<>>
    THEN UNCHANGED prog
    ELSE /\ index' = NextIndex(index, Len(files))
         /\ current_src' = Some(to_url(files[index' + 1]))
         /\ image_size' = <<0, 0>>
         /\ UNCHANGED files

\* ImageViewer::prev
prev ==
    IF files = <<>>
    THEN UNCHANGED prog
    ELSE /\ index' = PrevIndex(index, Len(files))
         /\ current_src' = Some(to_url(files[index' + 1]))
         /\ image_size' = <<0, 0>>
         /\ UNCHANGED files

\* The index the toggle moves to: where the anchor is in the rearranged
\* files, 0 when there is no anchor or it is not among them.
Reindex(arranged, cur_path) ==
    IF cur_path.some
    THEN LET pos == position(arranged, cur_path.val)
         IN IF pos.some THEN pos.val ELSE 0
    ELSE 0

\* Mutant: a directory anywhere in the drop is preferred to a file before it.
FirstOpenable_DirectoryFirst(d) ==
    LET ds == {i \in 1..Len(d) : d[i].some /\ is_dir(d[i].val)}
        fs == {i \in 1..Len(d) : d[i].some /\ is_file(d[i].val)}
    IN IF ds # {} THEN CHOOSE i \in ds : \A j \in ds : i <= j
       ELSE IF fs # {} THEN CHOOSE i \in fs : \A j \in fs : i <= j
       ELSE 0

\* The first dropped file (1-based) that has a path naming a directory or a
\* regular file; 0 when there is none.
FirstOpenable(d) ==
    LET hits == {i \in 1..Len(d) : d[i].some /\ (is_dir(d[i].val) \/ is_file(d[i].val))}
    IN IF hits = {} THEN 0 ELSE CHOOSE i \in hits : \A j \in hits : i <= j

---------------------------------------------------------------------------
(* The handlers of ImageViewer::update, one user event per step *)

\* The last two elements of a sequence.
Last2(s) == IF Len(s) <= 2 THEN s ELSE SubSeq(s, Len(s) - 1, Len(s))

\* "Open directory" clicked and a folder picked.
OpenDirectory ==
    /\ \E dir \in Dirs : open_dir(dir) /\ target' = Some(dir)
    /\ op' = "open"
    /\ dropped' = <<>>
    /\ nav' = <<>>
    /\ visited' = <<index'>>
    /\ UNCHANGED <<randomize, probe>>

\* "Prev" clicked or ArrowLeft pressed.
PrevPressed ==
    /\ prev
    /\ op' = "prev"
    /\ ret' = "none"
    /\ dropped' = <<>>
    /\ nav' = Last2(Append(nav, [op |-> "prev", index |-> index, src |-> current_src]))
    /\ visited' = <<index'>>
    /\ UNCHANGED <<randomize, target, origin, probe>>

\* "Next" clicked or ArrowRight pressed.
NextPressed ==
    /\ next
    /\ op' = "next"
    /\ ret' = "none"
    /\ dropped' = <<>>
    /\ nav' = Last2(Append(nav, [op |-> "next", index |-> index, src |-> current_src]))
    /\ visited' = IF files = <<>> THEN <<index'>>
                  ELSE IF Len(visited) <= Len(files) THEN Append(visited, index')
                  ELSE <<index, index'>>
    /\ UNCHANGED <<randomize, target, origin, probe>>

\* Mutant: with no files the toggle is put back.
ToggleRandomize_IgnoredWhenEmpty ==
    /\ randomize' = IF files = <<>> THEN randomize ELSE ~randomize
    /\ IF files # <<>>
       THEN LET cur_path == IF current_src.some THEN to_path(current_src.val) ELSE None
            IN \E arranged \in Arrange(files, randomize') :
                 /\ files' = arranged
                 /\ index' = Reindex(arranged, cur_path)
                 /\ current_src' = Some(to_url(arranged[index' + 1]))
                 /\ image_size' = <<0, 0>>
       ELSE UNCHANGED prog
    /\ op' = "toggle"
    /\ ret' = "none"
    /\ dropped' = <<>>
    /\ nav' = <<>>
    /\ visited' = <<index'>>
    /\ UNCHANGED <<target, origin, probe>>

\* "Randomize" toggled.
ToggleRandomize ==
    /\ randomize' = ~randomize
    /\ IF files # <<>>
       THEN LET cur_path == IF current_src.some THEN to_path(current_src.val) ELSE None
            IN \E arranged \in Arrange(files, randomize') :
                 /\ files' = arranged
                 /\ index' = Reindex(arranged, cur_path)
                 /\ current_src' = Some(to_url(arranged[index' + 1]))
                 /\ image_size' = <<0, 0>>
       ELSE UNCHANGED prog
    /\ op' = "toggle"
    /\ ret' = "none"
    /\ dropped' = <<>>
    /\ nav' = <<>>
    /\ visited' = <<index'>>
    /\ UNCHANGED <<target, origin, probe>>

\* Mutant: the set is shuffled again in every frame that asks for Random.
RandomizeKept_Reshuffles ==
    /\ IF files # <<>> /\ randomize
       THEN LET cur_path == IF current_src.some THEN to_path(current_src.val) ELSE None
            IN \E arranged \in shuffle(files) :
                 /\ files' = arranged
                 /\ index' = Reindex(arranged, cur_path)
                 /\ current_src' = Some(to_url(arranged[index' + 1]))
                 /\ image_size' = <<0, 0>>
       ELSE UNCHANGED prog
    /\ op' = "keep"
    /\ ret' = "none"
    /\ dropped' = <<>>
    /\ UNCHANGED <<randomize, target, origin, nav, visited, probe>>

\* The Randomize widget shown and left as it is: the mode asked for is the
\* mode the viewer is in, prev_random == self.randomize, and the reorder
\* block is skipped.
RandomizeKept ==
    /\ op' = "keep"
    /\ ret' = "none"
    /\ dropped' = <<>>
    /\ UNCHANGED <<prog, randomize, target, origin, nav, visited, probe>>

\* What can be dropped: no path, the directories, two regular files and a
\* path that names nothing.
DropPaths ==
    { DirD, DirE,
      DirD \o B(<<"/", "n", "o", "t", "e", "s", ".", "t", "x", "t">>),
      DirN \o B(<<"/", "xFF", ".", "p", "n", "g">>),
      B(<<"/", "g", "o", "n", "e">>) }

DropItems == {None} \cup {Some(p) : p \in DropPaths}

Drops == UNION {[1..n -> DropItems] : n \in 1..MaxDrop}

\* Files dropped on the window.
DropFiles ==
    /\ \E d \in Drops :
         /\ dropped' = d
         /\ LET i == FirstOpenable(d)
            IN IF i = 0
               THEN ret' = "none" /\ target' = None /\ UNCHANGED <<prog, origin>>
               ELSE IF is_dir(d[i].val)
               THEN open_dir(d[i].val) /\ target' = d[i]
               ELSE open_file(d[i].val) /\ ret' = "none" /\ target' = d[i]
    /\ op' = "drop"
    /\ nav' = <<>>
    /\ visited' = <<index'>>
    /\ UNCHANGED <<randomize, probe>>

Next ==
    \/ OpenDirectory
    \/ PrevPressed
    \/ NextPressed
    \/ ToggleRandomize
    \/ RandomizeKept
    \/ DropFiles

Spec == Init /\ [][Next]_vars

---------------------------------------------------------------------------
(* PathSortable::cmp as a function: three paths are drawn and compared *)

\* The paths compared: a name that is not UTF-8, the name its lossy string
\* spells, names with digit runs and a name that is a prefix of the others.
CmpPaths ==
    { DirN \o B(<<"/", "xFF", ".", "p", "n", "g">>),
      DirN \o B(<<"/", "uFFFD", ".", "p", "n", "g">>),
      DirN \o B(<<"/", "i", "m", "g", "2", ".", "p", "n", "g">>),
      DirN \o B(<<"/", "i", "m", "g", "1", "0", ".", "p", "n", "g">>),
      DirN \o B(<<"/", "i", "m", "g", "0", "2", ".", "p", "n", "g">>),
      DirN \o B(<<"/", "i", "m", "g">>) }

InitCmp ==
    /\ current_src = None
    /\ image_size = <<0, 0>>
    /\ files = <<>>
    /\ index = 0
    /\ randomize = TRUE
    /\ dropped = <<>>
    /\ op = "init"
    /\ ret = "none"
    /\ target = None
    /\ origin = "empty"
    /\ nav = <<>>
    /\ visited = <<0>>
    /\ \E a, b, c \in CmpPaths :
         probe = [a |-> a, b |-> b, c |-> c, done |-> FALSE, r |-> <<>>]

\* The three paths are compared with each other.
Compare ==
    /\ ~probe.done
    /\ probe' = [probe EXCEPT
                   !.done = TRUE,
                   !.r = [aa |-> cmp(probe.a, probe.a),
                          ab |-> cmp(probe.a, probe.b),
                          ba |-> cmp(probe.b, probe.a),
                          bc |-> cmp(probe.b, probe.c),
                          ac |-> cmp(probe.a, probe.c)]]
    /\ UNCHANGED <<current_src, image_size, files, index, randomize,
                   dropped, op, ret, target, origin, nav, visited>>

NextCmp == Compare

SpecCmp == InitCmp /\ [][NextCmp]_vars

---------------------------------------------------------------------------
(* Properties *)

Displayed == files[index + 1]

ImgA == DirD \o B(<<"/", "a", ".", "p", "n", "g">>)
ImgB == DirD \o B(<<"/", "b", ".", "j", "p", "g">>)
ImgC == DirD \o B(<<"/", "c", ".", "P", "N", "G">>)
Notes == DirD \o B(<<"/", "n", "o", "t", "e", "s", ".", "t", "x", "t">>)
ImgFF == DirN \o B(<<"/", "xFF", ".", "p", "n", "g">>)

LoadFailed(r) == r \in {"DirectoryUnreadable", "EmptyDirectory"}

\* C1: toggling the display mode on a non-empty set leaves the displayed path
\* unchanged: the path at the new index is the path that was at the old index.
C1_ToggleKeepsDisplayed ==
    [][(randomize' # randomize /\ files # <<>>) => files'[index' + 1] = files[index + 1]]_vars

\* C2: in every reachable state the set is empty or 0 <= index < length.
C2_IndexInRange == files = <<>> \/ (0 <= index /\ index < Len(files))

C2_Witness == op = "toggle" /\ Len(files) = 3 /\ index = 2

\* C3: a load that fails (DirectoryUnreadable or EmptyDirectory) leaves the
\* set, its order, the index, the mode and the displayed source as they were.
C3_FailedLoadChangesNothing ==
    [][LoadFailed(ret') => UNCHANGED <<files, index, randomize, current_src, image_size>>]_vars

C3_Witness ==
    /\ ret = "DirectoryUnreadable"
    /\ Len(files) = 3 /\ index = 1 /\ ~randomize /\ current_src = Some(to_url(ImgB))

\* C4: once the set is non-empty it is non-empty in every later state.
C4_LoadedStaysLoaded == [][files # <<>> => files' # <<>>]_vars

C4_Witness == op = "drop" /\ ret = "EmptyDirectory" /\ target = Some(DirE) /\ files # <<>>

Openable(item) == item.some /\ (is_dir(item.val) \/ is_file(item.val))

\* The least element of a non-empty set of numbers.
Least(S) == CHOOSE i \in S : \A j \in S : i <= j

\* C5 as stated: a drop opens the first directory among the dropped paths,
\* and the first regular file only when no directory is among them.
C5_FirstDirectoryWins ==
    op = "drop" =>
        LET ds == {i \in 1..Len(dropped) : dropped[i].some /\ is_dir(dropped[i].val)}
            fs == {i \in 1..Len(dropped) : dropped[i].some /\ is_file(dropped[i].val)}
        IN IF ds # {} THEN target = dropped[Least(ds)] /\ ret # "none"
           ELSE IF fs # {} THEN target = dropped[Least(fs)] /\ files = <<target.val>>
           ELSE target = None

\* C5 as amended: a drop opens the first dropped path, in the order dropped,
\* that is a directory or a regular file: a directory is handed to open_dir, a
\* regular file becomes the one-element set; every other dropped path is
\* ignored, and a drop with no such path opens nothing.
C5_FirstOpenableWins ==
    op = "drop" =>
        LET os == {i \in 1..Len(dropped) : Openable(dropped[i])}
        IN IF os = {} THEN target = None /\ ret = "none"
           ELSE /\ target = dropped[Least(os)]
                /\ is_dir(target.val) => ret # "none"
                /\ is_file(target.val) => ret = "none" /\ files = <<target.val>>

C5_Witness ==
    /\ op = "drop"
    /\ dropped = <<Some(Notes), Some(DirD)>>
    /\ files = <<Notes>>

\* C6: on a non-empty set next() followed by prev() brings the index, the
\* displayed source and the displayed path back to what they were.
C6_NextPrevRoundTrip ==
    (files # <<>> /\ Len(nav) = 2 /\ nav[1].op = "next" /\ nav[2].op = "prev") =>
        /\ index = nav[1].index
        /\ current_src = nav[1].src
        /\ current_src = Some(to_url(Displayed))

C6_Witness ==
    /\ Len(files) = 3 /\ Len(nav) = 2 /\ nav[1].op = "next" /\ nav[2].op = "prev"
    /\ nav[1].index = 2 /\ nav[2].index = 0 /\ index = 2

\* C7: on a set of length n, n next() calls in a row visit every index exactly
\* once and end at the index they started from; next() at n-1 goes to 0.
C7_NextCycle ==
    (files # <<>> /\ Len(visited) = Len(files) + 1) =>
        LET n == Len(files)
        IN /\ visited[n + 1] = visited[1]
           /\ {visited[k] : k \in 2..(n + 1)} = 0..(n - 1)
           /\ \A k \in 1..n : visited[k] = n - 1 => visited[k + 1] = 0

C7_Witness == Len(files) = 3 /\ visited = <<1, 2, 0, 1>>

\* The set of elements of a sequence.
Range(s) == {s[i] : i \in 1..Len(s)}

\* Two ASCII strings that differ at most in the case of their letters.
SameIgnoringCase(x, y) ==
    /\ Len(x) = Len(y)
    /\ \A i \in 1..Len(x) :
         \/ x[i] = y[i]
         \/ (x[i] >= 65 /\ x[i] <= 90 /\ y[i] = x[i] + 32)
         \/ (y[i] >= 65 /\ y[i] <= 90 /\ x[i] = y[i] + 32)

AllowList ==
    { B(<<"j", "p", "g">>), B(<<"j", "p", "e", "g">>), B(<<"p", "n", "g">>),
      B(<<"b", "m", "p">>), B(<<"g", "i", "f">>), B(<<"w", "e", "b", "p">>),
      B(<<"a", "v", "i", "f">>) }

\* A directory entry the filter is to keep: a regular file whose name does
\* not start with '.' and ends in '.' and an allow-listed extension.
Qualifies(e) ==
    /\ e.kind = "file"
    /\ e.name[1] # 46
    /\ \E k \in 1..Len(e.name) :
         /\ e.name[k] = 46
         /\ \A j \in (k + 1)..Len(e.name) : e.name[j] # 46
         /\ \E x \in AllowList : SameIgnoringCase(SubSeq(e.name, k + 1, Len(e.name)), x)

\* The paths of the entries of dir that the filter is to keep.
QualifyingIn(dir) ==
    {EntryPath(dir, FileSystem[dir][i]) :
        i \in {j \in 1..Len(FileSystem[dir]) : Qualifies(FileSystem[dir][j])}}

Qualifying == UNION {QualifyingIn(d) : d \in Dirs}

AfterLoad == op \in {"open", "drop"} /\ ret = "Ok"

\* C8 as stated: after a successful load the set holds exactly the qualifying
\* entries of the directory, and for the directory {b.jpg, a.png, .hidden.png,
\* notes.txt, c.PNG} it is a.png, b.jpg, c.PNG in that order.
C8_LoadNaturalOrder ==
    AfterLoad =>
        /\ Range(files) = QualifyingIn(target.val)
        /\ Len(files) = Cardinality(QualifyingIn(target.val))
        /\ target.val = DirD => files = <<ImgA, ImgB, ImgC>>

\* C8 as amended: after a successful load the set holds exactly the qualifying
\* entries of the directory, each once; for the directory {b.jpg, a.png,
\* .hidden.png, notes.txt, c.PNG} these are a.png, b.jpg, c.PNG, in that order
\* when the mode is Sequential and in any order when it is Random.
C8_LoadFilteredSet ==
    AfterLoad =>
        /\ Range(files) = QualifyingIn(target.val)
        /\ Len(files) = Cardinality(QualifyingIn(target.val))
        /\ target.val = DirD => Range(files) = {ImgA, ImgB, ImgC}
        /\ (target.val = DirD /\ ~randomize) => files = <<ImgA, ImgB, ImgC>>

C8_Witness ==
    AfterLoad /\ target = Some(DirD) /\ ~randomize /\ files = <<ImgA, ImgB, ImgC>>

\* C9 as stated: the set never holds a path that failed the directory-entry
\* filter.
C9_OnlyFilteredPaths == \A i \in 1..Len(files) : files[i] \in Qualifying

\* C9 as amended: a set loaded from a directory never holds a path that
\* failed the filter; the set a single-file drop made holds exactly one path,
\* a regular file that need not pass the filter.
C9_FilteredUnlessSingleFile ==
    /\ origin = "empty" => files = <<>>
    /\ origin = "dir" => \A i \in 1..Len(files) : files[i] \in Qualifying
    /\ origin = "file" => Len(files) = 1 /\ is_file(files[1])

C9_Witness == origin = "file" /\ files = <<Notes>> /\ op = "toggle"

\* C10: a single regular file dropped replaces the state with the one-element
\* set holding that file, index 0 and the file as the displayed source,
\* whatever its extension and whatever the state was before.
C10_SingleFileDrop ==
    (op = "drop" /\ Len(dropped) = 1 /\ dropped[1].some /\ is_file(dropped[1].val)) =>
        /\ files = <<dropped[1].val>>
        /\ index = 0
        /\ current_src = Some(FilePrefix \o Lossy(dropped[1].val))
        /\ ret = "none"

C10_Witness ==
    /\ op = "drop" /\ dropped = <<Some(Notes)>> /\ files = <<Notes>> /\ index = 0
    /\ ~randomize

Reverse(o) == IF o = "Less" THEN "Greater" ELSE IF o = "Greater" THEN "Less" ELSE "Equal"

\* C11: cmp is a strict total order on paths: cmp(a, a) is Equal, cmp(a, b)
\* is the reverse of cmp(b, a), it is transitive, and two paths compare Equal
\* only when they are equal paths.
C11_CmpStrictTotalOrder ==
    probe.done =>
        /\ probe.r.aa = "Equal"
        /\ probe.r.ab = Reverse(probe.r.ba)
        /\ (probe.r.ab = "Less" /\ probe.r.bc = "Less") => probe.r.ac = "Less"
        /\ (probe.r.ab = "Equal" /\ probe.r.bc = "Equal") => probe.r.ac = "Equal"
        /\ probe.r.ab = "Equal" => probe.a = probe.b

ImgN2 == DirN \o B(<<"/", "i", "m", "g", "2", ".", "p", "n", "g">>)
ImgN10 == DirN \o B(<<"/", "i", "m", "g", "1", "0", ".", "p", "n", "g">>)

\* C13: whenever the mode is Sequential the set is in natural order: no path
\* is followed, anywhere later in the set, by one that cmp orders before it.
C13_SequentialIsSorted ==
    ~randomize => \A i, j \in 1..Len(files) : i < j => cmp(files[i], files[j]) # "Greater"

C13_Witness ==
    ~randomize /\ op = "toggle" /\ files = <<ImgN2, ImgN10, ImgFF>> /\ index = 1

\* C14: the displayed source is absent exactly when the set is empty, and
\* otherwise is the file:// URL of the path at the current index.
C14_SourceDerived ==
    /\ current_src.some <=> files # <<>>
    /\ files # <<>> => current_src = Some(FilePrefix \o Lossy(files[index + 1]))

C14_Witness ==
    /\ op = "next" /\ Len(files) = 3 /\ index = 2 /\ files[3] = ImgFF
    /\ current_src = Some(FilePrefix \o DirN \o B(<<"/", "uFFFD", ".", "p", "n", "g">>))

\* How often x occurs in the sequence s.
Count(s, x) == Cardinality({i \in 1..Len(s) : s[i] = x})

\* t holds the elements of s, each as often as s does.
IsPermutation(s, t) ==
    /\ Len(s) = Len(t)
    /\ \A x \in Range(s) \cup Range(t) : Count(s, x) = Count(t, x)

NoDuplicates == \A i, j \in 1..Len(files) : i # j => files[i] # files[j]

\* C15: a mode toggle only reorders the set (the set after it is a
\* permutation of the set before it), and no reachable set holds a path twice.
C15_ToggleReorders ==
    /\ []NoDuplicates
    /\ [][randomize' # randomize => IsPermutation(files, files')]_vars

C15_Witness == op = "toggle" /\ randomize /\ files = <<ImgC, ImgA, ImgB>> /\ index = 2

\* C16: a successful load ends with index 0 and the first path of the new
\* set displayed, whatever the state was before, and leaves the mode alone.
C16_LoadResetsIndex ==
    [][ret' = "Ok" =>
         /\ index' = 0
         /\ files' # <<>>
         /\ current_src' = Some(FilePrefix \o Lossy(files'[1]))
         /\ randomize' = randomize]_vars

C16_Witness ==
    /\ op = "open" /\ ret = "Ok" /\ target = Some(DirN) /\ ~randomize
    /\ index = 0 /\ files[1] = ImgN2 /\ current_src = Some(FilePrefix \o ImgN2)

\* C17: next() and prev() change only the index and the displayed source:
\* the set, its order and the mode are as before.
C17_NavKeepsSetAndMode ==
    [][op' \in {"next", "prev"} =>
         /\ files' = files
         /\ randomize' = randomize
         /\ image_size' = image_size]_vars

C17_Witness == op = "prev" /\ randomize /\ files = <<ImgB, ImgC, ImgA>> /\ index = 1

\* C18: on an empty set next() and prev() change nothing (index stays 0, no
\* source is displayed, the set stays empty, the mode stays), and a toggle
\* changes only the mode.
C18_EmptySetNoOps ==
    [][files = <<>> =>
         /\ op' \in {"next", "prev"} =>
              /\ files' = <<>> /\ index = 0 /\ index' = 0
              /\ current_src = None /\ current_src' = None
              /\ randomize' = randomize /\ image_size' = image_size
         /\ op' = "toggle" =>
              /\ randomize' = ~randomize
              /\ files' = <<>> /\ index = 0 /\ index' = 0
              /\ current_src' = current_src /\ image_size' = image_size]_vars

C18_Witness ==
    files = <<>> /\ ~randomize /\ Len(nav) = 2 /\ nav[1].op = "next" /\ nav[2].op = "prev"

\* C19 as stated: asking again for the mode the viewer is in leaves the mode
\* and the displayed source unchanged, and when that mode is Random the set
\* is shuffled again: a set of two or more paths can come out rearranged.
C19_SameModeReshuffles ==
    /\ [][op' = "keep" => randomize' = randomize /\ current_src' = current_src]_vars
    /\ []((randomize /\ Len(files) >= 2) => ENABLED (RandomizeKept /\ files' # files))

\* C19 as amended: asking again for the mode the viewer is in never fails and
\* leaves the mode, the displayed source, the index and the arrangement of
\* the set unchanged, also when that mode is Random: the set is rearranged
\* only when the mode changes.
C19_SameModeChangesNothing ==
    [][op' = "keep" =>
         /\ ret' = "none"
         /\ UNCHANGED <<files, index, current_src, randomize, image_size>>]_vars

C19_Witness ==
    op = "keep" /\ randomize /\ files = <<ImgB, ImgA, ImgC>> /\ index = 1 /\ Len(nav) = 0

\* C20: to_path undoes to_url on every path of the set, so that the anchor
\* recovered from the displayed source is a path of the set and the toggle
\* never falls back to index 0 for want of it.
C20_ToPathInvertsToUrl ==
    /\ \A i \in 1..Len(files) : to_path(to_url(files[i])) = Some(files[i])
    /\ files # <<>> =>
         /\ current_src.some
         /\ to_path(current_src.val).some
         /\ position(files, to_path(current_src.val).val).some

====
